---- MODULE Spec2Model ----
(***************************************************************************)
(* Model of packit_service/worker/build/copr_build.py:                     *)
(* CoprBuildJobHelper.run_copr_build and CoprBuildJobHelper.run_build.     *)
(*                                                                         *)
(* One helper (one triggering event with its job configuration) runs       *)
(* run_copr_build; the event can be re-triggered, which runs it again      *)
(* against the same persistent store of build records.  Every call the     *)
(* workflow makes to a collaborator (forge, build service, store, task     *)
(* queue, telemetry) is appended to `log`, in program order.               *)
(*                                                                         *)
(* The collaborators fail only in the ways the workflow names: the source   *)
(* package build can fail, ensuring the remote project can raise            *)
(* PackitCoprSettingsException or another exception, submitting the build   *)
(* can raise CoprRequestException (with or without the permission phrase)   *)
(* or another exception.  The build service hands out a fresh build id for  *)
(* every submission.                                                        *)
(*                                                                         *)
(* Python strings that the code builds by concatenation are sequences of   *)
(* parts; Python None is the string "None" (or 0 for pr_id); Optional[bool]*)
(* values are "True", "False" or "None".                                   *)
(***************************************************************************)
EXTENDS Integers, Sequences, FiniteSets, TLC

\* ---------------------------------------------------------------- bounds
\* number of concrete chroots a job can name
NumChroots == 2
\* how many times the same event is (re-)triggered
MaxRuns == 2
\* largest number of entries in PackitCoprSettingsException.fields_to_change
MaxFields == 2
\* how many operations are run against the allowlist store
MaxAllowlistOps == 5

\* ------------------------------------------------------------- constants
None == "None"
NoPr == 0
Chroots == 1..NumChroots
\* chroots the "fedora-stable" alias expands to: the released ones, every
\* chroot but the last
StableChroots == {c \in Chroots : c < NumChroots}
FedoraStable == 0
Owners == {"packit", "alice"}
FieldNames == {"chroots", "additional_repos", "unlisted_on_hp"}
PyBools == {"True", "False"}
EmptyUrl == <<>>
PermissionPhrase == "You don't have permissions to build in this copr."
\* the character ` (U+0060), which a TLA+ string cannot hold
Backtick == "U+0060"
\* the message of lines 235-237, backticks included
OwnerNotSetMsg ==
    <<"Copr owner not set. Use Copr config file or ", Backtick, "--owner",
      Backtick, " when calling packit CLI.">>
\* service_config.deployment
Deployments == {"prod", "stg"}

\* job configurations an event can carry
NoJob == [present |-> FALSE]
\* target lists of the copr_build job: none, or the first k chroots
BuildTargetChoices == {{}} \cup {1..k : k \in Chroots}
\* target lists of the tests job: none, or the last chroots from k on
TestTargetChoices == {{}} \cup {k..NumChroots : k \in Chroots}
\* project name and project settings of the copr_build job
SettingsChoices ==
    {[project |-> None, list_on_homepage |-> "False",
      preserve_project |-> "True", additional_repos |-> <<>>],
     [project |-> "myproject", list_on_homepage |-> "True",
      preserve_project |-> "True", additional_repos |-> <<"repo">>]}
BuildJobs ==
    {[present |-> TRUE,
      owner |-> o,
      targets |-> t,
      project |-> s.project,
      list_on_homepage |-> s.list_on_homepage,
      preserve_project |-> s.preserve_project,
      additional_repos |-> s.additional_repos] :
        o \in Owners \cup {None}, t \in BuildTargetChoices, s \in SettingsChoices}
TestJobs == [present : {TRUE}, targets : TestTargetChoices]
\* where an owner can come from: (owner of the copr_build job, username of
\* the copr config, configured owner of the copr helper)
OwnerChoices ==
    {<<"alice", "packit", "packit">>,
     <<"alice", None, None>>,
     <<"packit", None, "packit">>,
     <<None, "packit", "packit">>,
     <<None, "packit", None>>,
     <<None, None, "packit">>,
     <<None, None, None>>}

VARIABLES
    job_build,          \* self.job_build: the copr_build job or NoJob
    job_tests,          \* self.job_tests: the tests job or NoJob
    pr_id,              \* self.metadata.pr_id (NoPr when the event has no PR)
    copr_username,      \* copr_client.config.get("username")
    configured_owner,   \* self.api.copr_helper.configured_owner
    deployment,         \* self.service_config.deployment
    pc,                 \* position in run_copr_build / run_build
    runs,               \* number of runs started for this event
    log,                \* collaborator calls of the current run, in order
    records,            \* persisted CoprBuildModel rows
    records_at_start,   \* `records` when the current run started
    srpm_model,         \* self.srpm_model
    owner,              \* local `owner` of run_build
    exc,                \* exception in flight out of run_build
    build,              \* (build_id, web_url) returned by run_build
    todo,               \* chroots the for-loop has not visited yet
    result,             \* value returned by run_copr_build
    next_build_id,      \* next id the build service hands out
    allowlist,          \* rows of the allowlist table
    al_next_id,         \* next primary key of the allowlist table
    al_ops,             \* number of allowlist operations done
    al_last,            \* the last allowlist operation and what it returned
    al_before,          \* `allowlist` before the last operation
    al_latest           \* per account: status of its latest add, None once removed

al_vars == <<allowlist, al_next_id, al_ops, al_last, al_before, al_latest>>

vars == <<job_build, job_tests, pr_id, copr_username, configured_owner,
          deployment, pc,
          runs, log, records, records_at_start, srpm_model, owner, exc,
          build, todo, result, next_build_id, al_vars>>

config == <<job_build, job_tests, pr_id, copr_username, configured_owner,
            deployment>>

\* ------------------------------------------------------- values and helpers
NoException == [type |-> None, msg |-> <<>>, fields_to_change |-> <<>>]
NoBuild == [build_id |-> 0, web_url |-> <<>>]
NoSrpm == [id |-> 0, success |-> FALSE]
NoResult == [returned |-> FALSE, success |-> FALSE, msg |-> None, error |-> <<>>]

TaskResults(success, msg, error) ==
    [returned |-> TRUE, success |-> success, msg |-> msg, error |-> error]

\* `phrase in str(ex)`
Contains(parts, phrase) == \E i \in DOMAIN parts : parts[i] = phrase

get_srpm_log_url_from_flask(id) == <<"srpm-build", id, "logs">>
get_copr_build_info_url_from_flask(id) == <<"copr-build", id>>
copr_web_build_url(build_id) == <<"copr-web", build_id>>

\* every exception type of the model derives from Exception
ExceptionTypes ==
    {"PackitCoprException", "PackitCoprSettingsException",
     "CoprRequestException", "PackitException"}

\* packit.config.aliases.get_build_targets(*names, default=None)
get_build_targets(names) ==
    (names \ {FedoraStable})
        \cup (IF FedoraStable \in names THEN StableChroots ELSE {})

\* BaseBuildJobHelper.configured_build_targets, as the docstring of
\* build_targets (lines 135-136) gives it: the targets of the build job, the
\* alias for a build job without targets, the test chroots without a build job
configured_build_targets ==
    IF job_build.present
    THEN IF job_build.targets # {} THEN job_build.targets ELSE {FedoraStable}
    ELSE IF ~job_tests.present
         THEN {}
         ELSE IF job_tests.targets # {}
              THEN job_tests.targets
              ELSE {FedoraStable}

build_targets == get_build_targets(configured_build_targets)

\* BaseBuildJobHelper.configured_tests_targets, as the docstring of
\* tests_targets gives it: nothing without a tests job; without targets the
\* configured build targets when a build job is configured, else the alias
configured_tests_targets ==
    IF ~job_tests.present
    THEN {}
    ELSE IF job_tests.targets # {}
         THEN job_tests.targets
         ELSE IF job_build.present
              THEN configured_build_targets
              ELSE {FedoraStable}

tests_targets == get_build_targets(configured_tests_targets)

\* commit status contexts: (status name, chroot)
status_name_build == "rpm-build"
status_name_test == "testing-farm"

\* the contexts report_status_to_all reaches: the build check of every build
\* target when a build job is configured, the test check of every tests
\* target when a tests job is configured
StatusTargets ==
    (IF job_build.present
     THEN {<<status_name_build, t>> : t \in build_targets} ELSE {})
    \cup (IF job_tests.present
          THEN {<<status_name_test, t>> : t \in tests_targets} ELSE {})

\* the contexts report_status_to_all_for_chroot reaches
StatusTargetsForChroot(chroot) ==
    (IF job_build.present /\ chroot \in build_targets
     THEN {<<status_name_build, chroot>>} ELSE {})
    \cup (IF job_tests.present /\ chroot \in tests_targets
          THEN {<<status_name_test, chroot>>} ELSE {})

\* lines 79-85: namespace-repo-identifier, with the suffix -stg on staging
default_project_name ==
    IF deployment = "stg"
    THEN "namespace-repo-identifier-stg"
    ELSE "namespace-repo-identifier"

job_project ==
    IF job_build.present /\ job_build.project # None
    THEN job_build.project
    ELSE default_project_name

\* variant: the owner of the job configuration is ignored
job_owner_default == copr_username

job_owner ==
    IF job_build.present /\ job_build.owner # None
    THEN job_build.owner
    ELSE copr_username

preserve_project ==
    IF job_build.present THEN job_build.preserve_project ELSE None

list_on_homepage ==
    IF job_build.present THEN job_build.list_on_homepage ELSE None

additional_repos ==
    IF job_build.present THEN job_build.additional_repos ELSE <<"None">>

\* ------------------------------------------------------- allowlist values
Accounts == {"Rayquaza", "Deoxys", "Solgaleo", "Zacian"}
Statuses == {"waiting", "approved_manually", "approved_automatically", "denied"}
NoEntry == [id |-> 0, account_name |-> None, status |-> None]
NoOperation ==
    [op |-> None, account |-> None, status |-> None, entry |-> NoEntry,
     listing |-> <<>>, failed |-> FALSE]

\* the allowlist store before any operation
AllowlistEmpty ==
    /\ allowlist = {}
    /\ al_next_id = 1
    /\ al_ops = 0
    /\ al_last = NoOperation
    /\ al_before = {}
    /\ al_latest = [a \in Accounts |-> None]

\* ------------------------------------------------------------------ Init
Init ==
    /\ AllowlistEmpty
    /\ job_build \in BuildJobs \cup {NoJob}
    /\ job_tests \in TestJobs \cup {NoJob}
    /\ pr_id \in {NoPr, 7}
    /\ copr_username \in {None, "packit"}
    /\ configured_owner \in {None, "packit"}
    /\ <<IF job_build.present THEN job_build.owner ELSE None,
          copr_username, configured_owner>> \in OwnerChoices
    /\ deployment \in Deployments
    /\ pc = "idle"
    /\ runs = 1
    /\ log = <<>>
    /\ records = {}
    /\ records_at_start = {}
    /\ srpm_model = NoSrpm
    /\ owner = None
    /\ exc = NoException
    /\ build = NoBuild
    /\ todo = {}
    /\ result = NoResult
    /\ next_build_id = 1

\* ------------------------------------------------- collaborator call records
\* BaseBuildJobHelper.report_status_to_all(description, state, url="")
report_status_to_all(state, description, url) ==
    [op |-> "report_status_to_all", state |-> state,
     description |-> description, url |-> url, contexts |-> StatusTargets]

\* BaseBuildJobHelper.report_status_to_all_for_chroot(description, state, url, chroot)
report_status_to_all_for_chroot(state, description, url, chroot) ==
    [op |-> "report_status_to_all_for_chroot", state |-> state,
     description |-> description, url |-> url, chroot |-> chroot,
     contexts |-> StatusTargetsForChroot(chroot)]

pr_comment(id, body) == [op |-> "pr_comment", pr_id |-> id, body |-> body]

\* ---------------------------------------------------- run_copr_build, part 1
\* variant: the missing configuration is reported to the forge before returning
NoJobDefinedReporting ==
    /\ pc = "idle"
    /\ ~(job_build.present \/ job_tests.present)
    /\ log' = Append(log, report_status_to_all("failure",
                             <<"No copr_build or tests job defined.">>, EmptyUrl))
    /\ result' = TaskResults(FALSE, "No copr_build or tests job defined.", <<>>)
    /\ pc' = "done"
    /\ UNCHANGED <<al_vars, config, runs, records, records_at_start, srpm_model,
                   owner, exc, build, todo, next_build_id>>

\* lines 158-161: neither job is configured
NoJobDefined ==
    /\ pc = "idle"
    /\ ~(job_build.present \/ job_tests.present)
    /\ result' = TaskResults(FALSE, "No copr_build or tests job defined.", <<>>)
    /\ pc' = "done"
    /\ UNCHANGED <<al_vars, config, runs, log, records, records_at_start, srpm_model,
                   owner, exc, build, todo, next_build_id>>

\* variant: the run starts working without the initial pending status
ReportBuildingSrpmSkipped ==
    /\ pc = "idle"
    /\ job_build.present \/ job_tests.present
    /\ pc' = "srpm"
    /\ UNCHANGED <<al_vars, config, runs, log, records, records_at_start, srpm_model,
                   owner, exc, build, todo, result, next_build_id>>

\* lines 163-168: the first status report of a run
ReportBuildingSrpm ==
    /\ pc = "idle"
    /\ job_build.present \/ job_tests.present
    /\ log' = Append(log, report_status_to_all("pending", <<"Building SRPM ...">>, EmptyUrl))
    /\ pc' = "srpm"
    /\ UNCHANGED <<al_vars, config, runs, records, records_at_start, srpm_model,
                   owner, exc, build, todo, result, next_build_id>>

\* variant: the failure is reported but the early return is missing
CreateSrpmNoReturn ==
    /\ pc = "srpm"
    /\ \E success \in BOOLEAN :
        LET model == [id |-> runs, success |-> success]
            built == Append(log, [op |-> "create_srpm_if_needed", id |-> model.id])
            msg == "SRPM build failed, check the logs for details."
        IN  /\ srpm_model' = model
            /\ log' = IF ~model.success
                      THEN Append(built,
                                report_status_to_all("failure", <<msg>>,
                                    get_srpm_log_url_from_flask(model.id)))
                      ELSE built
            /\ result' = result
            /\ pc' = "run_build"
    /\ UNCHANGED <<al_vars, config, runs, records, records_at_start, owner, exc,
                   build, todo, next_build_id>>

\* lines 169-178: build the source package; stop when it failed
CreateSrpm ==
    /\ pc = "srpm"
    /\ \E success \in BOOLEAN :
        LET model == [id |-> runs, success |-> success]
            built == Append(log, [op |-> "create_srpm_if_needed", id |-> model.id])
            msg == "SRPM build failed, check the logs for details."
        IN  /\ srpm_model' = model
            /\ IF ~model.success
               THEN /\ log' = Append(built,
                                report_status_to_all("failure", <<msg>>,
                                    get_srpm_log_url_from_flask(model.id)))
                    /\ result' = TaskResults(FALSE, msg, <<>>)
                    /\ pc' = "done"
               ELSE /\ log' = built
                    /\ result' = result
                    /\ pc' = "run_build"
    /\ UNCHANGED <<al_vars, config, runs, records, records_at_start, owner, exc,
                   build, todo, next_build_id>>

\* ------------------------------------------------------------- run_build
\* lines 233-237: resolve the owner or raise
ResolveOwner ==
    /\ pc = "run_build"
    /\ LET o == IF job_owner # None THEN job_owner ELSE configured_owner
       IN  /\ owner' = o
           /\ IF o = None
              THEN /\ exc' = [type |-> "PackitCoprException",
                              msg |-> OwnerNotSetMsg,
                              fields_to_change |-> <<>>]
                   /\ pc' = "except"
              ELSE /\ exc' = exc
                   /\ pc' = "ensure_project"
    /\ UNCHANGED <<al_vars, config, runs, log, records, records_at_start, srpm_model,
                   build, todo, result, next_build_id>>

\* fields_to_change of a PackitCoprSettingsException: an ordered dict
\* field -> (old, new), here a sequence of <<field, old, new>> rows
FieldsToChange ==
    {f \in UNION {[1..n -> FieldNames] : n \in 1..MaxFields} :
        \A i, j \in DOMAIN f : i # j => f[i] # f[j]}

OldValue(field) == <<"old", field>>
NewValue(field) == <<"new", field>>

ItemsOf(fields) ==
    [i \in DOMAIN fields |-> <<fields[i], OldValue(fields[i]), NewValue(fields[i])>>]

\* variant: the loop body runs for the first item only
TableRowsFirstOnly(items) ==
    IF items = <<>>
    THEN <<>>
    ELSE <<[field |-> Head(items)[1], old |-> Head(items)[2], new |-> Head(items)[3]]>>

\* lines 255-260: the markdown table, header first, one row per item
RECURSIVE TableRows(_)
TableRows(items) ==
    IF items = <<>>
    THEN <<>>
    ELSE <<[field |-> Head(items)[1], old |-> Head(items)[2], new |-> Head(items)[3]]>>
            \o TableRows(Tail(items))

\* lines 262-281
SettingsComment(o, project, items) ==
    [kind |-> "settings", owner |-> o, project |-> project,
     table |-> TableRows(items)]

\* variant: the booleans are passed whoever owns the project
EnsureProjectCallAnyOwner(o) ==
    [op |-> "create_copr_project_if_not_exists",
     project |-> job_project,
     chroots |-> build_targets,
     owner |-> o,
     list_on_homepage |-> list_on_homepage,
     preserve_project |-> preserve_project,
     additional_repos |-> additional_repos,
     request_admin_if_needed |-> TRUE]

\* lines 241-251: the arguments of create_copr_project_if_not_exists
EnsureProjectCall(o) ==
    LET overwrite_booleans == o = "packit"
    IN  [op |-> "create_copr_project_if_not_exists",
         project |-> job_project,
         chroots |-> build_targets,
         owner |-> o,
         list_on_homepage |-> IF overwrite_booleans THEN list_on_homepage ELSE None,
         preserve_project |-> IF overwrite_booleans THEN preserve_project ELSE None,
         additional_repos |-> additional_repos,
         request_admin_if_needed |-> TRUE]

\* lines 239-283: ensure the remote project; comment and re-raise on a
\* settings-permission error; any other exception propagates untouched
EnsureProject ==
    /\ pc = "ensure_project"
    /\ LET called == Append(log, EnsureProjectCall(owner))
       IN  \/ /\ log' = called
              /\ exc' = exc
              /\ pc' = "submit"
           \/ \E fields \in FieldsToChange :
                LET ex == [type |-> "PackitCoprSettingsException",
                           msg |-> <<"Copr project settings need to be updated">>,
                           fields_to_change |-> ItemsOf(fields)]
                IN  /\ log' = IF pr_id # NoPr
                              THEN Append(called,
                                     pr_comment(pr_id,
                                        SettingsComment(owner, job_project,
                                                        ex.fields_to_change)))
                              ELSE called
                    /\ exc' = ex
                    /\ pc' = "except"
           \/ /\ log' = called
              /\ exc' = [type |-> "PackitException",
                         msg |-> <<"Cannot create a new Copr project">>,
                         fields_to_change |-> <<>>]
              /\ pc' = "except"
    /\ UNCHANGED <<al_vars, config, runs, records, records_at_start, srpm_model,
                   owner, build, todo, result, next_build_id>>

\* what build_proxy.create_from_file can raise
SubmitErrors ==
    {[type |-> "CoprRequestException",
      msg |-> <<PermissionPhrase>>, fields_to_change |-> <<>>],
     [type |-> "CoprRequestException",
      msg |-> <<"Request failed: ", PermissionPhrase>>, fields_to_change |-> <<>>],
     [type |-> "CoprRequestException",
      msg |-> <<"Chroot is not enabled in this project.">>, fields_to_change |-> <<>>],
     [type |-> "PackitException",
      msg |-> <<"SRPM file not found">>, fields_to_change |-> <<>>]}

PermissionsComment(o, project) ==
    [kind |-> "permissions", owner |-> o, project |-> project,
     permissions_url |-> <<"copr-settings", o, project, "permissions">>]

\* variant: permission is requested only when there is a pull request
OnCoprRequestExceptionPrOnly(ex, o) ==
    IF Contains(ex.msg, PermissionPhrase) /\ pr_id # NoPr
    THEN <<[op |-> "request_permissions", ownername |-> o,
            projectname |-> job_project, permissions |-> "builder"],
           pr_comment(pr_id, PermissionsComment(o, job_project))>>
    ELSE <<>>

\* lines 293-314: the handler of CoprRequestException
OnCoprRequestException(ex, o) ==
    IF Contains(ex.msg, PermissionPhrase)
    THEN <<[op |-> "request_permissions", ownername |-> o,
            projectname |-> job_project, permissions |-> "builder"]>>
         \o (IF pr_id # NoPr
             THEN <<pr_comment(pr_id, PermissionsComment(o, job_project))>>
             ELSE <<>>)
    ELSE <<>>

\* lines 285-316: submit the source package
SubmitBuild ==
    /\ pc = "submit"
    /\ LET called == Append(log, [op |-> "create_from_file", ownername |-> owner,
                                  projectname |-> job_project,
                                  path |-> <<"srpm", srpm_model.id>>])
       IN  \/ /\ log' = called
              /\ build' = [build_id |-> next_build_id,
                           web_url |-> copr_web_build_url(next_build_id)]
              /\ next_build_id' = next_build_id + 1
              /\ todo' = build_targets
              /\ exc' = exc
              /\ pc' = "for_chroot"
           \/ \E ex \in SubmitErrors :
                /\ log' = IF ex.type = "CoprRequestException"
                          THEN called \o OnCoprRequestException(ex, owner)
                          ELSE called
                /\ exc' = ex
                /\ pc' = "except"
                /\ UNCHANGED <<build, next_build_id, todo>>
    /\ UNCHANGED <<al_vars, config, runs, records, records_at_start, srpm_model,
                   owner, result>>

\* ---------------------------------------------------- run_copr_build, part 2
\* variant: `except PackitException`
CaughtPackitOnly(ex) ==
    ex.type \in {"PackitCoprException", "PackitCoprSettingsException", "PackitException"}

\* line 182: except Exception
Caught(ex) == ex.type \in ExceptionTypes

\* variant: the handler reports the error and submits again
HandleExceptionRetry ==
    /\ pc = "except"
    /\ log' = log \o
           <<[op |-> "send_to_sentry", ex |-> exc],
             report_status_to_all("error",
                 <<"Submit of the build failed: ">> \o exc.msg, EmptyUrl)>>
    /\ pc' = "run_build"
    /\ UNCHANGED <<al_vars, config, runs, records, records_at_start, srpm_model,
                   owner, exc, build, todo, result, next_build_id>>

\* variant: the follow-up task is sent from the exception handler as well
HandleExceptionSendsTask ==
    /\ pc = "except"
    /\ log' = log \o
           <<[op |-> "send_to_sentry", ex |-> exc],
             report_status_to_all("error",
                 <<"Submit of the build failed: ">> \o exc.msg, EmptyUrl),
             [op |-> "send_task", name |-> "task.babysit_copr_build",
              args |-> <<build.build_id>>, countdown |-> 120]>>
    /\ result' = TaskResults(FALSE, "Submit of the Copr build failed.", exc.msg)
    /\ pc' = "done"
    /\ UNCHANGED <<al_vars, config, runs, records, records_at_start, srpm_model,
                   owner, exc, build, todo, next_build_id>>

\* variant: an error that was already explained in a comment is not reported
\* on the commit status
HandleExceptionQuietAfterComment ==
    /\ pc = "except"
    /\ log' = log \o
           <<[op |-> "send_to_sentry", ex |-> exc]>> \o
           (IF \E i \in DOMAIN log : log[i].op = "pr_comment"
            THEN <<>>
            ELSE <<report_status_to_all("error",
                       <<"Submit of the build failed: ">> \o exc.msg, EmptyUrl)>>)
    /\ result' = TaskResults(FALSE, "Submit of the Copr build failed.", exc.msg)
    /\ pc' = "done"
    /\ UNCHANGED <<al_vars, config, runs, records, records_at_start, srpm_model,
                   owner, exc, build, todo, next_build_id>>

\* lines 180-193: everything run_build raises ends in a failure result
HandleException ==
    /\ pc = "except"
    /\ IF Caught(exc)
       THEN /\ log' = log \o
                   <<[op |-> "send_to_sentry", ex |-> exc],
                     report_status_to_all("error",
                         <<"Submit of the build failed: ">> \o exc.msg, EmptyUrl)>>
            /\ result' = TaskResults(FALSE, "Submit of the Copr build failed.", exc.msg)
            /\ pc' = "done"
       ELSE /\ pc' = "raised"
            /\ UNCHANGED <<log, result>>
    /\ UNCHANGED <<al_vars, config, runs, records, records_at_start, srpm_model,
                   owner, exc, build, todo, next_build_id>>

\* CoprBuildModel.get_or_create: the row keyed by (build_id, target)
Existing(build_id, target) ==
    {r \in records : r.build_id = build_id /\ r.target = target}

NewRecord(build_id, target) ==
    [id |-> Cardinality(records) + 1,
     build_id |-> build_id,
     project_name |-> job_project,
     owner |-> job_owner,
     web_url |-> build.web_url,
     target |-> target,
     status |-> "pending",
     srpm_build |-> srpm_model.id,
     run |-> runs]

get_or_create(build_id, target) ==
    IF Existing(build_id, target) # {}
    THEN CHOOSE r \in Existing(build_id, target) : TRUE
    ELSE NewRecord(build_id, target)

\* variant: the loop stops after its first iteration
ForChrootOnce ==
    /\ pc = "for_chroot"
    /\ \E chroot \in todo :
        LET copr_build == get_or_create(build.build_id, chroot)
            url == get_copr_build_info_url_from_flask(copr_build.id)
        IN  /\ records' = records \cup {copr_build}
            /\ log' = log \o
                   <<[op |-> "get_or_create", build_id |-> build.build_id,
                      target |-> chroot, id |-> copr_build.id],
                     report_status_to_all_for_chroot("pending",
                         <<"Starting RPM build...">>, url, chroot)>>
            /\ todo' = {}
    /\ UNCHANGED <<al_vars, config, pc, runs, records_at_start, srpm_model, owner, exc,
                   build, result, next_build_id>>

\* lines 195-213: one iteration of the loop over build_targets
ForChroot ==
    /\ pc = "for_chroot"
    /\ \E chroot \in todo :
        LET copr_build == get_or_create(build.build_id, chroot)
            url == get_copr_build_info_url_from_flask(copr_build.id)
        IN  /\ records' = records \cup {copr_build}
            /\ log' = log \o
                   <<[op |-> "get_or_create", build_id |-> build.build_id,
                      target |-> chroot, id |-> copr_build.id],
                     report_status_to_all_for_chroot("pending",
                         <<"Starting RPM build...">>, url, chroot)>>
            /\ todo' = todo \ {chroot}
    /\ UNCHANGED <<al_vars, config, pc, runs, records_at_start, srpm_model, owner, exc,
                   build, result, next_build_id>>

\* variant: the task is sent without waiting for the loop to finish
SendTaskEarly ==
    /\ pc = "for_chroot"
    /\ log' = Append(log, [op |-> "send_task", name |-> "task.babysit_copr_build",
                           args |-> <<build.build_id>>, countdown |-> 120])
    /\ result' = TaskResults(TRUE, None, <<>>)
    /\ pc' = "done"
    /\ UNCHANGED <<al_vars, config, runs, records, records_at_start, srpm_model,
                   owner, exc, build, todo, next_build_id>>

\* lines 215-222: hand over to the follow-up task and return success
SendTask ==
    /\ pc = "for_chroot"
    /\ todo = {}
    /\ log' = Append(log, [op |-> "send_task", name |-> "task.babysit_copr_build",
                           args |-> <<build.build_id>>, countdown |-> 120])
    /\ result' = TaskResults(TRUE, None, <<>>)
    /\ pc' = "done"
    /\ UNCHANGED <<al_vars, config, runs, records, records_at_start, srpm_model,
                   owner, exc, build, todo, next_build_id>>

\* the same event is triggered again: a fresh run against the same store
Retrigger ==
    /\ pc \in {"done", "raised"}
    /\ runs < MaxRuns
    /\ runs' = runs + 1
    /\ pc' = "idle"
    /\ log' = <<>>
    /\ records_at_start' = records
    /\ srpm_model' = NoSrpm
    /\ owner' = None
    /\ exc' = NoException
    /\ build' = NoBuild
    /\ todo' = {}
    /\ result' = NoResult
    /\ UNCHANGED <<al_vars, config, records, next_build_id>>

Next ==
    \/ NoJobDefined
    \/ ReportBuildingSrpm
    \/ CreateSrpm
    \/ ResolveOwner
    \/ EnsureProject
    \/ SubmitBuild
    \/ HandleException
    \/ ForChroot
    \/ SendTask
    \/ Retrigger

Spec == Init /\ [][Next]_vars

\* ------------------------------------------------------------ allowlist store
wf_vars == <<config, pc, runs, log, records, records_at_start, srpm_model,
             owner, exc, build, todo, result, next_build_id>>

RowsOf(rows, name) == {r \in rows : r.account_name = name}

\* AllowlistModel.get_account(account_name): the first row of that name, or None
get_account(rows, name) ==
    IF RowsOf(rows, name) = {}
    THEN NoEntry
    ELSE CHOOSE r \in RowsOf(rows, name) : \A q \in RowsOf(rows, name) : r.id <= q.id

\* variant: every add inserts a new row
add_account_insert_only(rows, name, status, id) ==
    LET entry == [id |-> id, account_name |-> name, status |-> status]
    IN  [rows |-> rows \cup {entry}, entry |-> entry]

\* AllowlistModel.add_account(account_name, status): update the row of that
\* name or insert one; gives the table afterwards and the entry returned
add_account(rows, name, status, id) ==
    LET found == get_account(rows, name)
        entry == IF found # NoEntry
                 THEN [found EXCEPT !.status = status]
                 ELSE [id |-> id, account_name |-> name, status |-> status]
    IN  [rows |-> (rows \ {found}) \cup {entry}, entry |-> entry]

\* variant: removing an account without an entry is an error
remove_account_strict(rows, name) ==
    LET found == get_account(rows, name)
    IN  [rows |-> rows \ {found}, failed |-> found = NoEntry]

\* AllowlistModel.remove_account(account_name): delete the row if there is one
remove_account(rows, name) ==
    LET found == get_account(rows, name)
    IN  [rows |-> IF found # NoEntry THEN rows \ {found} ELSE rows,
         failed |-> FALSE]

\* account names of a set of rows, in primary key order
RECURSIVE NamesById(_)
NamesById(rows) ==
    IF rows = {}
    THEN <<>>
    ELSE LET first == CHOOSE r \in rows : \A q \in rows : r.id <= q.id
         IN  <<first.account_name>> \o NamesById(rows \ {first})

\* variant: the status filter is missing
get_accounts_by_status_unfiltered(rows, status) == NamesById(rows)

\* AllowlistModel.get_accounts_by_status(status)
get_accounts_by_status(rows, status) ==
    NamesById({r \in rows : r.status = status})

\* one add_account call on the store
DoAdd(op, name, status) ==
    LET added == add_account(allowlist, name, status, al_next_id)
    IN  /\ al_ops < MaxAllowlistOps
        /\ allowlist' = added.rows
        /\ al_next_id' = IF added.entry.id = al_next_id THEN al_next_id + 1 ELSE al_next_id
        /\ al_ops' = al_ops + 1
        /\ al_last' = [NoOperation EXCEPT !.op = op, !.account = name,
                                          !.status = status, !.entry = added.entry]
        /\ al_before' = allowlist
        /\ al_latest' = [al_latest EXCEPT ![name] = status]
        /\ UNCHANGED wf_vars

\* an account is put on the list with some status (the fixtures of
\* test_allowlist.py)
AddAccount == \E name \in Accounts, status \in Statuses : DoAdd("add", name, status)

\* `allowlist approve <account_name>`
Approve == \E name \in Accounts : DoAdd("approve", name, "approved_manually")

\* `allowlist remove <account_name>`
Remove ==
    \E name \in Accounts :
        LET removed == remove_account(allowlist, name)
        IN  /\ al_ops < MaxAllowlistOps
            /\ allowlist' = removed.rows
            /\ al_ops' = al_ops + 1
            /\ al_last' = [NoOperation EXCEPT !.op = "remove", !.account = name,
                                              !.failed = removed.failed]
            /\ al_before' = allowlist
            /\ al_latest' = [al_latest EXCEPT ![name] = None]
            /\ UNCHANGED <<al_next_id, wf_vars>>

\* `allowlist waiting`
Waiting ==
    /\ al_ops < MaxAllowlistOps
    /\ al_ops' = al_ops + 1
    /\ al_last' = [NoOperation EXCEPT !.op = "waiting", !.status = "waiting",
                      !.listing = get_accounts_by_status(allowlist, "waiting")]
    /\ al_before' = allowlist
    /\ UNCHANGED <<allowlist, al_next_id, al_latest, wf_vars>>

InitAllowlist ==
    /\ Init
    /\ job_build = NoJob
    /\ job_tests = NoJob
    /\ pr_id = NoPr
    /\ copr_username = None
    /\ configured_owner = None
    /\ deployment = "prod"

NextAllowlist ==
    \/ AddAccount
    \/ Approve
    \/ Remove
    \/ Waiting

SpecAllowlist == InitAllowlist /\ [][NextAllowlist]_vars

\* ================================================================ properties
\* positions in `log` of the calls of one collaborator operation
Calls(op) == {i \in DOMAIN log : log[i].op = op}

NoJobConfigured == ~(job_build.present \/ job_tests.present)
ReturnedFailure == pc = "done" /\ result.returned /\ ~result.success
ReturnedSuccess == pc = "done" /\ result.returned /\ result.success
SrpmFailed == srpm_model.id # 0 /\ ~srpm_model.success
BuildingSrpmStatus == report_status_to_all("pending", <<"Building SRPM ...">>, EmptyUrl)
RemoteOps == {"create_copr_project_if_not_exists", "create_from_file", "request_permissions"}

\* C1: with neither a build job nor a test job configured, a run ends in a
\* failure result and makes no collaborator call at all: no status report, no
\* source package build, no remote submission, no build record, no follow-up
\* task.
C1_NoJobFailsSilently ==
    NoJobConfigured =>
        /\ log = <<>>
        /\ records = records_at_start
        /\ srpm_model = NoSrpm
        /\ pc \in {"idle", "done"}
        /\ pc = "done" => ReturnedFailure

C1_Witness == NoJobConfigured /\ ReturnedFailure /\ runs = 2

\* C2: when the source package build failed, the run has made no call to the
\* build service, its last call is the failure status to all targets carrying
\* the SRPM log URL, and it has returned a failure result.
C2_SrpmFailureStops ==
    SrpmFailed =>
        /\ \A i \in DOMAIN log : log[i].op \notin RemoteOps
        /\ log[Len(log)] =
              report_status_to_all("failure",
                  <<"SRPM build failed, check the logs for details.">>,
                  get_srpm_log_url_from_flask(srpm_model.id))
        /\ log[Len(log)].url # EmptyUrl
        /\ ReturnedFailure
        /\ records = records_at_start

C2_Witness == SrpmFailed /\ ReturnedFailure /\ Len(log) = 3

\* C3: after a successful run with N resolved build targets there are exactly
\* N build records for the returned build_id, one per target, each created by
\* this run with status "pending"; each target got exactly one pending
\* "Starting RPM build..." status, reported after its record was created and
\* carrying the URL of that record.
C3_RecordPerTarget ==
    ReturnedSuccess =>
        LET mine == {r \in records : r.build_id = build.build_id}
        IN  /\ Cardinality(mine) = Cardinality(build_targets)
            /\ {r.target : r \in mine} = build_targets
            /\ mine \cap records_at_start = {}
            /\ \A r \in mine : r.status = "pending"
            /\ \A t \in build_targets :
                 LET recs == {r \in mine : r.target = t}
                     created == {i \in Calls("get_or_create") : log[i].target = t}
                     starts == {i \in Calls("report_status_to_all_for_chroot") :
                                   log[i].chroot = t}
                 IN  /\ Cardinality(recs) = 1
                     /\ Cardinality(created) = 1
                     /\ Cardinality(starts) = 1
                     /\ \A i \in starts :
                          /\ log[i].state = "pending"
                          /\ log[i].description = <<"Starting RPM build...">>
                          /\ \A j \in created : j < i
                          /\ \A r \in recs :
                               log[i].url = get_copr_build_info_url_from_flask(r.id)
            /\ \A i \in Calls("report_status_to_all_for_chroot") :
                 log[i].chroot \in build_targets

C3_Witness ==
    /\ ReturnedSuccess
    /\ Cardinality(build_targets) = 2
    /\ Cardinality({r \in records : r.build_id = build.build_id}) = 2
    /\ records_at_start # {}

\* C4: no exception leaves run_copr_build: a run that ended without success
\* (no job, SRPM failure, missing owner, settings-permission error,
\* build-permission error, any other submission exception) has returned a
\* TaskResults with success = false.
C4_FailuresAreResults ==
    /\ pc # "raised"
    /\ pc = "done" => result.returned
    /\ (pc = "done" /\ (NoJobConfigured \/ SrpmFailed \/ exc # NoException))
          => ReturnedFailure
    /\ pc = "except" => exc.type \in ExceptionTypes

C4_Witness ==
    /\ ReturnedFailure
    /\ exc.type = "CoprRequestException"
    /\ result.error = exc.msg

\* C5: in a run with a job configured, the pending "Building SRPM ..." status
\* with an empty URL is the first call of the run: nothing is built, submitted,
\* recorded or reported before it.
C5_PendingFirst ==
    /\ log # <<>> =>
          /\ log[1] = BuildingSrpmStatus
          /\ \A i \in DOMAIN log : log[i] = BuildingSrpmStatus => i = 1
    /\ (~NoJobConfigured /\ pc # "idle") => log # <<>>
    /\ (srpm_model # NoSrpm \/ records # records_at_start \/ exc # NoException)
          => log # <<>>

C5_Witness == ReturnedSuccess /\ Len(log) > 4 /\ log[1] = BuildingSrpmStatus

\* C6: the follow-up task task.babysit_copr_build(build_id), countdown 120, is
\* sent exactly once in a run that returns success, as the last call of the
\* run, after the record and the starting status of every build target; it is
\* never sent in a run that has not returned success; at the return the
\* records of the build are still pending, the run did not wait for the build.
C6_FollowUpOnceOnSuccess ==
    /\ ReturnedSuccess =>
          /\ Cardinality(Calls("send_task")) = 1
          /\ log[Len(log)] =
                [op |-> "send_task", name |-> "task.babysit_copr_build",
                 args |-> <<build.build_id>>, countdown |-> 120]
          /\ \A t \in build_targets :
                /\ \E i \in Calls("get_or_create") :
                      log[i].target = t /\ i < Len(log)
                /\ \E i \in Calls("report_status_to_all_for_chroot") :
                      log[i].chroot = t /\ i < Len(log)
          /\ \A r \in records : r.build_id = build.build_id => r.status = "pending"
    /\ ~ReturnedSuccess => Calls("send_task") = {}

C6_Witness ==
    /\ ReturnedSuccess
    /\ Calls("send_task") # {}
    /\ Cardinality(Calls("get_or_create")) = 2

\* C7: when ensuring the remote project raised the settings-permission error
\* and the event has a pull request, the run posted exactly one comment, on
\* that pull request, whose table has exactly one row for every field of
\* fields_to_change with that field's old and new value; the error propagates
\* and the source package is never submitted in that run.
C7_SettingsComment ==
    (exc.type = "PackitCoprSettingsException" /\ pr_id # NoPr) =>
        /\ Cardinality(Calls("pr_comment")) = 1
        /\ \A i \in Calls("pr_comment") :
             /\ log[i].pr_id = pr_id
             /\ log[i].body.kind = "settings"
             /\ \A k \in DOMAIN exc.fields_to_change :
                  Cardinality({n \in DOMAIN log[i].body.table :
                      /\ log[i].body.table[n].field = exc.fields_to_change[k][1]
                      /\ log[i].body.table[n].old = exc.fields_to_change[k][2]
                      /\ log[i].body.table[n].new = exc.fields_to_change[k][3]}) = 1
             /\ Len(log[i].body.table) = Len(exc.fields_to_change)
        /\ Calls("create_from_file") = {}
        /\ pc \in {"except", "done"}
        /\ pc = "done" => ReturnedFailure /\ result.error = exc.msg

C7_Witness ==
    /\ exc.type = "PackitCoprSettingsException"
    /\ pr_id # NoPr
    /\ Len(exc.fields_to_change) = 2
    /\ ReturnedFailure
    /\ Calls("pr_comment") # {}

IsBuildPermissionError(ex) ==
    ex.type = "CoprRequestException" /\ Contains(ex.msg, PermissionPhrase)

\* C8: when submit-build failed with the permission error for building,
\* builder permission was requested on the project exactly once, with or
\* without a pull request, and a comment linking to the permissions page was
\* posted exactly when there is a pull request; the error propagates.  After
\* any other error of submit-build there is no permission request and no
\* comment.
C8_BuildPermission ==
    /\ IsBuildPermissionError(exc) =>
          /\ Cardinality(Calls("request_permissions")) = 1
          /\ \A i \in Calls("request_permissions") :
                /\ log[i].ownername = owner
                /\ log[i].projectname = job_project
                /\ \E j \in Calls("create_from_file") : j < i
          /\ Cardinality(Calls("pr_comment")) = (IF pr_id # NoPr THEN 1 ELSE 0)
          /\ \A i \in Calls("pr_comment") :
                /\ log[i].pr_id = pr_id
                /\ log[i].body.kind = "permissions"
                /\ log[i].body.permissions_url =
                      <<"copr-settings", owner, job_project, "permissions">>
                /\ \A j \in Calls("request_permissions") : j < i
          /\ pc \in {"except", "done"}
          /\ pc = "done" => ReturnedFailure /\ result.error = exc.msg
    /\ (exc # NoException /\ Calls("create_from_file") # {}
            /\ ~IsBuildPermissionError(exc)) =>
          /\ Calls("request_permissions") = {}
          /\ Calls("pr_comment") = {}
          /\ pc \in {"except", "done"}

C8_Witness ==
    /\ IsBuildPermissionError(exc)
    /\ pr_id = NoPr
    /\ Calls("request_permissions") # {}
    /\ ReturnedFailure

\* C9: after an exception out of the submission was handled, the exception was
\* sent to telemetry once, the last call is an error status to all targets
\* whose description ends with the exception message, and the failure result
\* carries the error text; nothing is retried: in one run the remote project
\* is ensured at most once and the source package is submitted at most once.
C9_ErrorReportedNoRetry ==
    /\ (pc = "done" /\ exc # NoException) =>
          /\ Cardinality(Calls("send_to_sentry")) = 1
          /\ \A i \in Calls("send_to_sentry") : log[i].ex = exc /\ i = Len(log) - 1
          /\ log[Len(log)].op = "report_status_to_all"
          /\ log[Len(log)].state = "error"
          /\ log[Len(log)].description = <<"Submit of the build failed: ">> \o exc.msg
          /\ exc.msg # <<>>
          /\ ReturnedFailure
          /\ result.msg = "Submit of the Copr build failed."
          /\ result.error = exc.msg
    /\ exc = NoException => Calls("send_to_sentry") = {}
    /\ Cardinality(Calls("create_copr_project_if_not_exists")) <= 1
    /\ Cardinality(Calls("create_from_file")) <= 1

C9_Witness ==
    /\ pc = "done"
    /\ exc.type = "PackitException"
    /\ Calls("create_from_file") # {}
    /\ Calls("send_to_sentry") # {}

\* C10: list-on-homepage and preserve-project reach the build service with
\* their configured values only when the owner is "packit"; for every other
\* owner both are None; the additional repositories and the chroot list are
\* passed whoever the owner is.
C10_BooleansOnlyForPackit ==
    \A i \in Calls("create_copr_project_if_not_exists") :
        /\ log[i].owner = owner
        /\ IF log[i].owner = "packit"
           THEN /\ log[i].list_on_homepage = list_on_homepage
                /\ log[i].preserve_project = preserve_project
           ELSE /\ log[i].list_on_homepage = None
                /\ log[i].preserve_project = None
        /\ log[i].additional_repos = additional_repos
        /\ log[i].chroots = build_targets

C10_Witness ==
    /\ Calls("create_copr_project_if_not_exists") # {}
    /\ owner = "alice"
    /\ job_build.present
    /\ job_build.list_on_homepage = "True"
    /\ job_build.preserve_project = "True"
    /\ job_build.additional_repos # <<>>

\* the owner the configuration asks for: the explicit owner of the build job,
\* else the default of the build service
ExplicitOwner ==
    IF job_build.present /\ job_build.owner # None THEN job_build.owner ELSE None

DefaultOwner ==
    IF copr_username # None THEN copr_username ELSE configured_owner

IsOwnerNotSet(ex) ==
    ex.type = "PackitCoprException" /\ ex.msg = OwnerNotSetMsg

\* C11: the remote project is ensured and the build is submitted under the
\* explicit owner of the build job when it sets one, otherwise under the
\* default of the build service; when neither gives an owner the submission
\* stops with the configuration error before any call to the build service
\* and the run returns a failure result.
C11_OwnerResolution ==
    /\ \A i \in Calls("create_copr_project_if_not_exists") :
          /\ log[i].owner = (IF ExplicitOwner # None THEN ExplicitOwner ELSE DefaultOwner)
          /\ log[i].owner # None
    /\ \A i \in Calls("create_from_file") :
          /\ log[i].ownername = (IF ExplicitOwner # None THEN ExplicitOwner ELSE DefaultOwner)
          /\ log[i].ownername # None
    /\ (ExplicitOwner = None /\ DefaultOwner = None) =>
          /\ \A i \in DOMAIN log : log[i].op \notin RemoteOps
          /\ pc \notin {"ensure_project", "submit", "for_chroot"}
          /\ pc \in {"except", "done"} /\ srpm_model.success => IsOwnerNotSet(exc)
          /\ pc = "done" => ReturnedFailure
    /\ IsOwnerNotSet(exc) => ExplicitOwner = None /\ DefaultOwner = None

C11_Witness ==
    /\ ReturnedFailure
    /\ IsOwnerNotSet(exc)
    /\ job_build.present
    /\ Calls("send_to_sentry") # {}

\* C12: after any sequence of adds and removes the allowlist holds at most
\* one entry per account_name, and get(account) returns the entry of that name
\* with the status of the most recent add for that account; an add of a name
\* that has an entry overwrites the status and returns that entry.
C12_OneEntryPerAccount ==
    /\ \A a \in Accounts :
          /\ Cardinality(RowsOf(allowlist, a)) <= 1
          /\ al_latest[a] # None =>
                /\ get_account(allowlist, a).account_name = a
                /\ get_account(allowlist, a).status = al_latest[a]
    /\ al_last.op \in {"add", "approve"} =>
          /\ al_last.entry = get_account(allowlist, al_last.account)
          /\ al_last.entry.account_name = al_last.account
          /\ al_last.entry.status = al_last.status
          /\ get_account(al_before, al_last.account) # NoEntry =>
                Cardinality(allowlist) = Cardinality(al_before)

C12_Witness ==
    /\ al_last.op = "add"
    /\ al_last.account = "Deoxys"
    /\ get_account(al_before, "Deoxys").status = "approved_manually"
    /\ get_account(allowlist, "Deoxys").status = "waiting"
    /\ Cardinality(allowlist) = 2

\* elements of a sequence
Range(seq) == {seq[i] : i \in DOMAIN seq}

\* C13: list_by_status(s) holds exactly the account names whose last written
\* status is s, each once, whatever the order of the adds: an account added
\* again with another status is listed under the new status only.
C13_ListByStatus ==
    /\ \A s \in Statuses :
          LET listing == get_accounts_by_status(allowlist, s)
          IN  /\ Range(listing) = {a \in Accounts : al_latest[a] = s}
              /\ Len(listing) = Cardinality(Range(listing))
    /\ al_last.op = "waiting" =>
          /\ Range(al_last.listing) = {a \in Accounts : al_latest[a] = "waiting"}
          /\ Len(al_last.listing) = Cardinality(Range(al_last.listing))

C13_Witness ==
    /\ al_last.op = "add"
    /\ al_last.status = "waiting"
    /\ get_account(al_before, al_last.account).status = "approved_manually"
    /\ Len(get_accounts_by_status(allowlist, "waiting")) = 2
    /\ Len(get_accounts_by_status(al_before, "approved_manually")) = 1
    /\ get_accounts_by_status(allowlist, "approved_manually") = <<>>

\* C14: after remove(account), get(account) is absent and the entries of all
\* other accounts are what they were; removing an account that has no entry
\* does not fail and leaves the store as it was.
C14_RemoveFrame ==
    al_last.op = "remove" =>
        /\ get_account(allowlist, al_last.account) = NoEntry
        /\ RowsOf(allowlist, al_last.account) = {}
        /\ \A b \in Accounts \ {al_last.account} :
              RowsOf(allowlist, b) = RowsOf(al_before, b)
        /\ ~al_last.failed
        /\ get_account(al_before, al_last.account) = NoEntry => allowlist = al_before

C14_Witness ==
    /\ al_last.op = "remove"
    /\ get_account(al_before, al_last.account) # NoEntry
    /\ Cardinality(al_before) = 2
    /\ Cardinality(allowlist) = 1

C16_RecordOwnerIsSubmitOwner ==
    ReturnedSuccess =>
        \A r \in records :
            r.build_id = build.build_id =>
                /\ \A i \in Calls("create_copr_project_if_not_exists") :
                      r.owner = log[i].owner
                /\ \A i \in Calls("create_from_file") :
                      r.owner = log[i].ownername

\* C17: a run that returned a failure result left the build records as they
\* were when it started and sent no follow-up task; records are never
\* deleted, and a run adds records only after submit-build returned the build
\* id they carry.
C17_FailureLeavesRecords ==
    /\ ReturnedFailure =>
          /\ records = records_at_start
          /\ Calls("send_task") = {}
          /\ Calls("get_or_create") = {}
    /\ records_at_start \subseteq records
    /\ records # records_at_start =>
          /\ build # NoBuild
          /\ \A r \in records \ records_at_start : r.build_id = build.build_id
          /\ \E i \in Calls("create_from_file") :
                \A j \in Calls("get_or_create") : i < j
    /\ build = NoBuild => Calls("get_or_create") = {}

C17_Witness ==
    /\ ReturnedFailure
    /\ records_at_start # {}
    /\ records = records_at_start
    /\ Calls("create_from_file") # {}

StartingStatuses ==
    {i \in Calls("report_status_to_all_for_chroot") :
        /\ log[i].state = "pending"
        /\ log[i].description = <<"Starting RPM build...">>}

IsNamedSubmissionError(ex) ==
    \/ ex.type = "PackitCoprSettingsException"
    \/ IsBuildPermissionError(ex)
    \/ IsOwnerNotSet(ex)

ErrorStatuses ==
    {i \in Calls("report_status_to_all") : log[i].state = "error"}

\* C19: when run_build raised the settings-permission error, the
\* build-permission error or the owner-not-set error, the finished run has
\* reported exactly one error status to all targets, has sent the exception
\* to telemetry exactly once, and posted its pull-request comment, if any,
\* before the error status.
C19_NamedErrorsReported ==
    (pc \in {"done", "raised"} /\ IsNamedSubmissionError(exc)) =>
        /\ pc = "done"
        /\ Cardinality(ErrorStatuses) = 1
        /\ \A e \in ErrorStatuses :
              /\ log[e].description = <<"Submit of the build failed: ">> \o exc.msg
              /\ log[e].contexts = StatusTargets
              /\ \A c \in Calls("pr_comment") : c < e
        /\ Cardinality(Calls("send_to_sentry")) = 1
        /\ \A t \in Calls("send_to_sentry") : log[t].ex = exc
        /\ pr_id # NoPr /\ ~IsOwnerNotSet(exc) => Calls("pr_comment") # {}

C19_Witness ==
    /\ pc = "done"
    /\ exc.type = "PackitCoprSettingsException"
    /\ Calls("pr_comment") # {}
    /\ ErrorStatuses # {}

====
